---- MODULE Spec2Model ----
(***************************************************************************)
(* Model of group_32: optimize_special (src/group_32/optimize_special.py)  *)
(* and of the part of optimize_numeric that its test suite pins down       *)
(* (tests/test_optimize_numeric.py).                                       *)
(*                                                                         *)
(* One behaviour is one call.  Init draws the callee and its argument;     *)
(* the actions are the statements of the callee in program order.          *)
(*                                                                         *)
(* Strings that the code inspects character by character (column names)    *)
(* are sequences of one-character strings.  A column of a frame handed to  *)
(* optimize_special is the summary of what that function reads from it:    *)
(* its name, its dtype, the number of distinct non-missing values and the  *)
(* number of missing cells.  A column of a frame handed to                 *)
(* optimize_numeric carries its cell values as 64-bit integers.            *)
(***************************************************************************)
EXTENDS Integers, Sequences, FiniteSets, TLC

VARIABLES fn, df, verbose, pc, out, err, msg, result

vars == <<fn, df, verbose, pc, out, err, msg, result>>

(***************************************************************************)
(* Bounds of the model.                                                    *)
(***************************************************************************)
MaxRows == 2
MaxCols == 2
MaxIntRows == 2

(***************************************************************************)
(* Characters and strings.                                                 *)
(***************************************************************************)
UpperChars == <<"A","B","C","D","E","F","G","H","I","J","K","L","M",
                "N","O","P","Q","R","S","T","U","V","W","X","Y","Z">>
LowerChars == <<"a","b","c","d","e","f","g","h","i","j","k","l","m",
                "n","o","p","q","r","s","t","u","v","w","x","y","z">>

\* str.lower() on one character
LowerChar(c) ==
    IF \E i \in 1..Len(UpperChars) : UpperChars[i] = c
    THEN LowerChars[CHOOSE i \in 1..Len(UpperChars) : UpperChars[i] = c]
    ELSE c

\* str.lower()
lower(s) == [i \in 1..Len(s) |-> LowerChar(s[i])]

Whitespace == {" ", "\t", "\n", "\r"}

\* str.strip(): drop the leading and the trailing whitespace
strip(s) ==
    LET keep == {i \in 1..Len(s) : s[i] \notin Whitespace}
    IN  IF keep = {} THEN <<>>
        ELSE LET a == CHOOSE i \in keep : \A j \in keep : i <= j
                 b == CHOOSE i \in keep : \A j \in keep : j <= i
             IN  SubSeq(s, a, b)

(***************************************************************************)
(* optimize_special: the names it binds before the loop.                   *)
(***************************************************************************)
\* Names bound in the module's global scope when optimize_special runs:
\* the one import statement and the function definition.
ModuleGlobals == {"pd", "optimize_special"}

\* The alternatives of id_regex, r"(?:^|_)(id|uuid|key)(?:$|_)"
IdTokens == { <<"i","d">>, <<"u","u","i","d">>, <<"k","e","y">> }

\* id_regex.search(name) with re.IGNORECASE: some token occurs, preceded by
\* the start of the string or a "_", and followed by a "_" or by "$", which
\* is the end of the string or the position before a final newline.
id_regex_search(name) ==
    \E t \in IdTokens : \E i \in 1..Len(name) :
        LET j == i + Len(t) - 1
        IN  /\ j <= Len(name)
            /\ lower(SubSeq(name, i, j)) = t
            /\ (i = 1 \/ name[i - 1] = "_")
            /\ \/ j = Len(name)
               \/ name[j + 1] = "_"
               \/ (j + 1 = Len(name) /\ name[j + 1] = "\n")

coord_names == { <<"l","a","t">>,
                 <<"l","a","t","i","t","u","d","e">>,
                 <<"l","o","n">>,
                 <<"l","o","n","g">>,
                 <<"l","o","n","g","i","t","u","d","e">> }

\* pd.api.types.is_categorical_dtype(s)
is_categorical_dtype(col) == col.dtype = "category"

\* pd.api.types.is_object_dtype(s)
is_object_dtype(col) == col.dtype = "object"

\* s.nunique(dropna=False): the missing cells together are one more value
nunique(col) == col.distinct + (IF col.nmiss > 0 THEN 1 ELSE 0)

\* uniq_ratio >= 0.9, with uniq_ratio = nunique / n_rows, n_rows > 0
\* (the quotient of two row counts is compared exactly: 9/10 and the
\* literal 0.9 are the same double)
ratio_ge_09(col, n_rows) == 10 * nunique(col) >= 9 * n_rows

\* uniq_ratio > 0.5
ratio_gt_05(col, n_rows) == 2 * nunique(col) > n_rows

HeaderLine ==
    [label |-> "", name |-> <<>>, text |-> "\n--- Special Column Analysis ---"]

EmptyLine ==
    [label |-> "", name |-> <<>>, text |-> "(DataFrame is empty)"]

CategoricalLine(name) ==
    [label |-> "<Categorical/Ordinal>", name |-> name,
     text |-> "**Categorical/Ordinal** (Type is 'category')."]

CoordinatesLine(name) ==
    [label |-> "<Coordinates>", name |-> name,
     text |-> "Identified as **Latitude/Longitude**. Already optimized to a float dtype (if numeric optimization was run)."]

UniqueIdLine(name) ==
    [label |-> "<Unique ID>", name |-> name,
     text |-> "Identified as potential **Unique ID**. High cardinality (not optimized to 'category')."]

TextEntityLine(name) ==
    [label |-> "<Text Entity>", name |-> name,
     text |-> "Identified as **Text Entity (Name/Address)**. Stays as string/object due to high variability."]

\* The body of the loop for one column: the lines it prints (none or one).
classify(col, n_rows) ==
    IF is_categorical_dtype(col)
    THEN << CategoricalLine(col.name) >>
    ELSE IF lower(strip(col.name)) \in coord_names
    THEN << CoordinatesLine(col.name) >>
    ELSE IF id_regex_search(col.name) /\ ratio_ge_09(col, n_rows)
    THEN << UniqueIdLine(col.name) >>
    ELSE IF /\ is_object_dtype(col)
            /\ ratio_gt_05(col, n_rows)
            /\ ~ id_regex_search(col.name)
    THEN << TextEntityLine(col.name) >>
    ELSE << >>

\* for col in df.columns: the lines of all columns, in column order
RECURSIVE report(_, _)
report(cols, n_rows) ==
    IF cols = << >> THEN << >>
    ELSE classify(Head(cols), n_rows) \o report(Tail(cols), n_rows)

(***************************************************************************)
(* optimize_special, statement by statement.                               *)
(***************************************************************************)
TypeErrorMessage == "df must be a pandas DataFrame"

\* SpecialCheckType with the header printed before the type check
SpecialCheckType_HeaderFirst ==
    /\ fn = "optimize_special"
    /\ pc = "check"
    /\ out' = Append(out, HeaderLine)
    /\ IF df.kind # "DataFrame"
       THEN /\ err' = "TypeError"
            /\ msg' = TypeErrorMessage
            /\ pc' = "raised"
       ELSE /\ pc' = "len"
            /\ UNCHANGED <<err, msg>>
    /\ UNCHANGED <<fn, df, verbose, result>>

\* if not isinstance(df, pd.DataFrame): raise TypeError(...)
SpecialCheckType ==
    /\ fn = "optimize_special"
    /\ pc = "check"
    /\ IF df.kind # "DataFrame"
       THEN /\ err' = "TypeError"
            /\ msg' = TypeErrorMessage
            /\ pc' = "raised"
       ELSE /\ pc' = "header"
            /\ UNCHANGED <<err, msg>>
    /\ UNCHANGED <<fn, df, verbose, out, result>>

\* print("\n--- Special Column Analysis ---")
SpecialPrintHeader ==
    /\ fn = "optimize_special"
    /\ pc = "header"
    /\ out' = Append(out, HeaderLine)
    /\ pc' = "len"
    /\ UNCHANGED <<fn, df, verbose, err, msg, result>>

\* SpecialCheckEmpty testing the number of columns instead of len(df)
SpecialCheckEmpty_ByColumns ==
    /\ fn = "optimize_special"
    /\ pc = "len"
    /\ IF Len(df.cols) = 0
       THEN /\ out' = Append(out, EmptyLine)
            /\ result' = [kind |-> "None", n_rows |-> 0, cols |-> << >>]
            /\ pc' = "done"
       ELSE /\ pc' = "analyse"
            /\ UNCHANGED <<out, result>>
    /\ UNCHANGED <<fn, df, verbose, err, msg>>

\* n_rows = len(df); if n_rows == 0: print("(DataFrame is empty)"); return
SpecialCheckEmpty ==
    /\ fn = "optimize_special"
    /\ pc = "len"
    /\ IF df.n_rows = 0
       THEN /\ out' = Append(out, EmptyLine)
            /\ result' = [kind |-> "None", n_rows |-> 0, cols |-> << >>]
            /\ pc' = "done"
       ELSE /\ pc' = "analyse"
            /\ UNCHANGED <<out, result>>
    /\ UNCHANGED <<fn, df, verbose, err, msg>>

\* From id_regex = re.compile(...) to the final return None.  The name re
\* is looked up in the module's globals when the statement runs; a name that
\* is not bound there raises NameError and the call ends before the loop.
SpecialAnalyse ==
    /\ fn = "optimize_special"
    /\ pc = "analyse"
    /\ IF "re" \notin ModuleGlobals
       THEN /\ err' = "NameError"
            /\ msg' = "name 're' is not defined"
            /\ pc' = "raised"
            /\ UNCHANGED <<out, result>>
       ELSE /\ out' = out \o report(df.cols, df.n_rows)
            /\ result' = [kind |-> "None", n_rows |-> 0, cols |-> << >>]
            /\ pc' = "done"
            /\ UNCHANGED <<err, msg>>
    /\ UNCHANGED <<fn, df, verbose>>

(***************************************************************************)
(* 64-bit signed integers.  A value is four 16-bit words, most significant *)
(* first, in two's complement: the first word is signed                    *)
(* (-32768..32767), the other three are 0..65535.                          *)
(***************************************************************************)
Word == 256 * 256
Half == 128 * 256

\* the 64-bit value of a small integer n (-2^31 <= n < 2^31)
I64(n) ==
    << IF n < 0 THEN -1 ELSE 0,
       IF n < 0 THEN Word - 1 ELSE 0,
       (n \div Word) % Word,
       n % Word >>

\* a <= b on 64-bit values
RECURSIVE LexLeq(_, _)
LexLeq(a, b) ==
    IF a = << >> THEN TRUE
    ELSE IF Head(a) # Head(b) THEN Head(a) < Head(b)
    ELSE LexLeq(Tail(a), Tail(b))

\* np.iinfo(intW).min
IntMin(w) ==
    CASE w = 8  -> I64(-128)
      [] w = 16 -> I64(-Half)
      [] w = 32 -> << -1, Word - 1, Half, 0 >>
      [] w = 64 -> << -Half, 0, 0, 0 >>

\* np.iinfo(intW).max
IntMax(w) ==
    CASE w = 8  -> I64(127)
      [] w = 16 -> I64(Half - 1)
      [] w = 32 -> << 0, 0, Half - 1, Word - 1 >>
      [] w = 64 -> << Half - 1, Word - 1, Word - 1, Word - 1 >>

\* the value after the column is stored with w bits: the low w bits of v,
\* sign-extended
Cast(v, w) ==
    CASE w = 64 -> v
      [] w = 32 -> IF v[3] >= Half THEN << -1, Word - 1, v[3], v[4] >>
                                   ELSE << 0, 0, v[3], v[4] >>
      [] w = 16 -> IF v[4] >= Half THEN << -1, Word - 1, Word - 1, v[4] >>
                                   ELSE << 0, 0, 0, v[4] >>
      [] w = 8  -> LET b == v[4] % 256
                   IN  IF b >= 128 THEN << -1, Word - 1, Word - 1, Word - 256 + b >>
                                   ELSE << 0, 0, 0, b >>

IntDtype(w) ==
    CASE w = 8 -> "int8" [] w = 16 -> "int16" [] w = 32 -> "int32" [] w = 64 -> "int64"

\* s.min() / s.max() of a column without missing values
ColMin(values) ==
    values[CHOOSE i \in 1..Len(values) : \A j \in 1..Len(values) : LexLeq(values[i], values[j])]
ColMax(values) ==
    values[CHOOSE i \in 1..Len(values) : \A j \in 1..Len(values) : LexLeq(values[j], values[i])]

\* whether [lo, hi] lies in the range of the w-bit signed integers
Fits(lo, hi, w) == LexLeq(IntMin(w), lo) /\ LexLeq(hi, IntMax(w))

(***************************************************************************)
(* optimize_numeric.  Its source is not part of the repository snapshot;   *)
(* the steps below follow section 4.1 of the design and the test suite.    *)
(***************************************************************************)
\* DowncastWidth with the limits of each range excluded
DowncastWidth_Exclusive(values) ==
    LET lo == ColMin(values)
        hi == ColMax(values)
        Inside(w) == /\ LexLeq(IntMin(w), lo) /\ lo # IntMin(w)
                     /\ LexLeq(hi, IntMax(w)) /\ hi # IntMax(w)
    IN  IF Inside(8) THEN 8
        ELSE IF Inside(16) THEN 16
        ELSE IF Inside(32) THEN 32
        ELSE 64

\* the width chosen for an integer column: try 8, 16, 32 in turn, else 64
DowncastWidth(values) ==
    LET lo == ColMin(values)
        hi == ColMax(values)
    IN  IF Fits(lo, hi, 8) THEN 8
        ELSE IF Fits(lo, hi, 16) THEN 16
        ELSE IF Fits(lo, hi, 32) THEN 32
        ELSE 64

\* one column of the returned frame
DowncastColumn(col) ==
    IF col.dtype = "int64" /\ Len(col.values) > 0
    THEN LET w == DowncastWidth(col.values)
         IN  [col EXCEPT !.dtype = IntDtype(w),
                         !.values = [i \in 1..Len(col.values) |-> Cast(col.values[i], w)]]
    ELSE col

\* input validation of optimize_numeric
NumericCheckType ==
    /\ fn = "optimize_numeric"
    /\ pc = "check"
    /\ IF df.kind # "DataFrame"
       THEN /\ err' = "TypeError"
            /\ msg' = TypeErrorMessage
            /\ pc' = "raised"
       ELSE /\ pc' = "downcast"
            /\ UNCHANGED <<err, msg>>
    /\ UNCHANGED <<fn, df, verbose, out, result>>

\* the per-column pass and the return of the transformed frame
NumericDowncast ==
    /\ fn = "optimize_numeric"
    /\ pc = "downcast"
    /\ result' = [df EXCEPT !.cols = [i \in 1..Len(df.cols) |-> DowncastColumn(df.cols[i])]]
    /\ out' = IF verbose
              THEN Append(out, [label |-> "", name |-> << >>, text |-> "summary"])
              ELSE out
    /\ pc' = "done"
    /\ UNCHANGED <<fn, df, verbose, err, msg>>

(***************************************************************************)
(* The calls the model explores.                                           *)
(***************************************************************************)
\* arguments that are not a DataFrame: a list, a str, None
NonFrames ==
    { [kind |-> k, n_rows |-> 0, cols |-> << >>] : k \in {"list", "str", "NoneType"} }

NameList ==
    << <<"l","a","t">>,
       <<" ","L","o","n"," ">>,
       <<"f","l","a","t">>,
       <<"u","s","e","r","_","i","d">>,
       <<"U","U","I","D">>,
       <<"v","i","d","e","o">> >>

Dtypes == {"category", "object", "int64"}

\* the column labels of a frame: distinct names, at most MaxCols of them
Labels ==
    { [i \in 1..Cardinality(S) |->
          NameList[CHOOSE x \in S : Cardinality({y \in S : y < x}) = i - 1]] :
      S \in {T \in SUBSET (1..Len(NameList)) : Cardinality(T) <= MaxCols} }

\* what n cells can hold: k distinct non-missing values and m missing cells
Contents(n) ==
    { c \in [distinct : 0..n, nmiss : 0..n] :
        /\ c.distinct + c.nmiss <= n
        /\ (c.distinct = 0) <=> (c.nmiss = n) }

\* a frame for optimize_special: n rows, the labels names, and for the
\* i-th column the dtype f[i][1] and the contents f[i][2]
SpecialFrame(n, names, f) ==
    [kind |-> "DataFrame", n_rows |-> n,
     cols |-> [i \in 1..Len(names) |->
                 [name |-> names[i], dtype |-> f[i][1],
                  distinct |-> f[i][2].distinct, nmiss |-> f[i][2].nmiss]]]

\* integer cell values around the limits of the four widths
IntSamples ==
    { I64(0), I64(-10), I64(127), I64(128), I64(-128), I64(-129),
      I64(Half - 1), I64(Half), I64(-Half), I64(-Half - 1),
      IntMax(32), << 0, 0, Half, 0 >>, << 0, 0, Half, 1 >>,
      IntMin(32), << -1, Word - 1, Half - 1, Word - 1 >>,
      IntMax(64), IntMin(64) }

\* a frame for optimize_numeric: one int64 column without missing values
NumericFrame(v) ==
    [kind |-> "DataFrame", n_rows |-> Len(v),
     cols |-> << [name |-> <<"x">>, dtype |-> "int64", values |-> v] >>]

Init ==
    /\ fn \in {"optimize_special", "optimize_numeric"}
    /\ \/ /\ df \in NonFrames
          /\ verbose \in (IF fn = "optimize_numeric" THEN BOOLEAN ELSE {TRUE})
       \/ /\ fn = "optimize_special"
          /\ verbose = TRUE
          /\ \E n \in 0..MaxRows : \E names \in Labels :
                \E f \in [1..Len(names) -> Dtypes \X Contents(n)] :
                   df = SpecialFrame(n, names, f)
       \/ /\ fn = "optimize_numeric"
          /\ verbose \in BOOLEAN
          /\ \E n \in 1..MaxIntRows : \E v \in [1..n -> IntSamples] :
                df = NumericFrame(v)
    /\ pc = "check"
    /\ out = << >>
    /\ err = "none"
    /\ msg = ""
    /\ result = [kind |-> "unset", n_rows |-> 0, cols |-> << >>]

Next ==
    \/ SpecialCheckType
    \/ SpecialPrintHeader
    \/ SpecialCheckEmpty
    \/ SpecialAnalyse
    \/ NumericCheckType
    \/ NumericDowncast

Spec == Init /\ [][Next]_vars

(***************************************************************************)
(* Vocabulary of the properties.                                           *)
(***************************************************************************)
Ended == pc \in {"done", "raised"}

SpecialOnFrame == fn = "optimize_special" /\ df.kind = "DataFrame"

SpecialEndedNonEmpty == SpecialOnFrame /\ df.n_rows > 0 /\ Ended

Columns == { df.cols[i] : i \in 1..Len(df.cols) }

\* the per-column lines among the emitted lines
ColumnLines == SelectSeq(out, LAMBDA l : l.label # "")

\* the labels reported for the column called name
Reported(name) ==
    { out[i].label : i \in { j \in 1..Len(out) : out[j].label # "" /\ out[j].name = name } }

\* name holds id, uuid or key, in any case, as a segment between the start
\* or an underscore and the end or an underscore
HasIdSegment(name) ==
    \E t \in IdTokens : \E i \in 1..Len(name) :
        LET j == i + Len(t) - 1
        IN  /\ j <= Len(name)
            /\ lower(SubSeq(name, i, j)) = t
            /\ (i = 1 \/ name[i - 1] = "_")
            /\ (j = Len(name) \/ name[j + 1] = "_")

IsCoordinateName(name) == lower(strip(name)) \in coord_names

\* distinct values with all missing cells counted as one value
DistinctWithMissing(c) == IF c.nmiss > 0 THEN c.distinct + 1 ELSE c.distinct

\* the label of the first rule a column matches, none when no rule matches
FirstRule(c, n) ==
    IF c.dtype = "category" THEN {"<Categorical/Ordinal>"}
    ELSE IF IsCoordinateName(c.name) THEN {"<Coordinates>"}
    ELSE IF HasIdSegment(c.name) /\ 10 * DistinctWithMissing(c) >= 9 * n THEN {"<Unique ID>"}
    ELSE IF /\ c.dtype = "object"
            /\ 2 * DistinctWithMissing(c) > n
            /\ ~ HasIdSegment(c.name)
    THEN {"<Text Entity>"}
    ELSE {}

(***************************************************************************)
(* Properties.                                                             *)
(***************************************************************************)
\* C1: when a call of optimize_special on a frame with rows has ended,
\* every column has at most one reported label, and it is the label of the
\* first matching rule in the order CategoricalOrdinal, Coordinate,
\* UniqueID, TextEntity: a categorical column is reported as
\* CategoricalOrdinal whatever its name and cardinality, and a
\* non-categorical column with a coordinate name is never reported as
\* UniqueID or TextEntity.
C1_FirstMatchingRuleWins ==
    SpecialEndedNonEmpty =>
        \A c \in Columns :
            /\ Cardinality(Reported(c.name)) <= 1
            /\ Reported(c.name) = FirstRule(c, df.n_rows)
            /\ c.dtype = "category" => Reported(c.name) = {"<Categorical/Ordinal>"}
            /\ (c.dtype # "category" /\ IsCoordinateName(c.name))
                  => Reported(c.name) \cap {"<Unique ID>", "<Text Entity>"} = {}

\* C2: when a call of optimize_special on a frame with rows has ended, a
\* column that is neither categorical nor coordinate-named is reported as
\* UniqueID exactly when its name holds an id/uuid/key segment and its
\* distinct count is at least 0.9 of the row count.
C2_UniqueIdIff ==
    SpecialEndedNonEmpty =>
        \A c \in Columns :
            (c.dtype # "category" /\ ~ IsCoordinateName(c.name)) =>
                ( "<Unique ID>" \in Reported(c.name)
                  <=> (HasIdSegment(c.name) /\ 10 * DistinctWithMissing(c) >= 9 * df.n_rows) )

\* C3: when a call of optimize_special on a frame with rows has ended, a
\* column that is neither categorical nor coordinate-named is reported as
\* TextEntity exactly when its dtype is object, its distinct count is
\* strictly more than 0.5 of the row count and its name holds no id segment.
C3_TextEntityIff ==
    SpecialEndedNonEmpty =>
        \A c \in Columns :
            (c.dtype # "category" /\ ~ IsCoordinateName(c.name)) =>
                ( "<Text Entity>" \in Reported(c.name)
                  <=> ( /\ c.dtype = "object"
                        /\ 2 * DistinctWithMissing(c) > df.n_rows
                        /\ ~ HasIdSegment(c.name) ) )

\* C4: when a call of optimize_special on a frame with rows has ended, a
\* non-categorical column is reported as Coordinate exactly when its name,
\* trimmed and lower-cased, is one of lat, latitude, lon, long, longitude,
\* whatever its dtype and cardinality.
C4_CoordinateIff ==
    SpecialEndedNonEmpty =>
        \A c \in Columns :
            c.dtype # "category" =>
                ("<Coordinates>" \in Reported(c.name) <=> IsCoordinateName(c.name))

\* C5: a call of either function with an argument that is not a DataFrame
\* ends in a TypeError with the message 'df must be a pandas DataFrame',
\* with nothing emitted and nothing returned; no other argument raises it.
C5_TypeErrorFirst ==
    /\ (df.kind # "DataFrame" /\ pc # "check") => (pc = "raised" /\ err = "TypeError")
    /\ err = "TypeError" =>
          /\ df.kind # "DataFrame"
          /\ msg = "df must be a pandas DataFrame"
          /\ out = << >>
          /\ result.kind = "unset"

\* C5 witness: optimize_special has raised on None
C5_Witness ==
    fn = "optimize_special" /\ df.kind = "NoneType" /\ pc = "raised" /\ err = "TypeError"

\* C6: a call of optimize_special on a DataFrame raises no error, and when
\* it has ended it has returned None.
C6_NoOtherError ==
    SpecialOnFrame =>
        /\ err = "none"
        /\ Ended => (pc = "done" /\ result.kind = "None")

\* C7: a call of optimize_special on a frame with zero rows returns having
\* emitted the empty notice once and no per-column line, whatever columns
\* the frame declares.
C7_EmptyFrame ==
    (SpecialOnFrame /\ df.n_rows = 0) =>
        /\ ColumnLines = << >>
        /\ pc \notin {"check", "header", "len"} =>
              /\ pc = "done"
              /\ err = "none"
              /\ Cardinality({ i \in 1..Len(out) : out[i] = EmptyLine }) = 1

\* C7 witness: the call has returned on a zero-row frame that declares a
\* categorical column and a coordinate-named column
C7_Witness ==
    /\ SpecialOnFrame /\ df.n_rows = 0 /\ pc = "done"
    /\ \E c \in Columns : c.dtype = "category"
    /\ \E c \in Columns : c.dtype # "category" /\ IsCoordinateName(c.name)

\* C8: when a call of optimize_special on a frame with rows has ended, the
\* per-column lines are one line '<Label> name: description' for each
\* column that matches a rule, in column order, and nothing else.
C8_LinesInColumnOrder ==
    SpecialEndedNonEmpty =>
        /\ Len(ColumnLines) <= Len(df.cols)
        /\ Len(ColumnLines) =
              Cardinality({ i \in 1..Len(df.cols) : FirstRule(df.cols[i], df.n_rows) # {} })
        /\ \A i \in 1..Len(df.cols) :
              FirstRule(df.cols[i], df.n_rows) # {} =>
                 \E p \in 1..Len(ColumnLines) :
                    /\ ColumnLines[p].name = df.cols[i].name
                    /\ {ColumnLines[p].label} = FirstRule(df.cols[i], df.n_rows)
                    /\ p = Cardinality({ j \in 1..i : FirstRule(df.cols[j], df.n_rows) # {} })

\* whether the 64-bit value v lies in the range of the w-bit signed integers
InRange(v, w) == LexLeq(IntMin(w), v) /\ LexLeq(v, IntMax(w))

\* C9: when optimize_numeric has returned, an integer column without
\* missing values has the smallest of the widths 8, 16, 32, 64 whose range,
\* limits included, holds every value of the column, and the same values:
\* values all within [-128, 127] give int8, and a value outside the 32-bit
\* range gives int64.
C9_SmallestWidth ==
    (fn = "optimize_numeric" /\ pc = "done") =>
        \A c \in 1..Len(df.cols) :
            LET before == df.cols[c]
                after  == result.cols[c]
                cells  == 1..Len(before.values)
            IN  /\ after.values = before.values
                /\ \E w \in {8, 16, 32, 64} :
                      /\ after.dtype = IntDtype(w)
                      /\ \A i \in cells : InRange(before.values[i], w)
                      /\ \A u \in {8, 16, 32, 64} :
                            u < w => \E i \in cells : ~ InRange(before.values[i], u)
                /\ (\A i \in cells : InRange(before.values[i], 8)) => after.dtype = "int8"
                /\ (\E i \in cells : ~ InRange(before.values[i], 32)) => after.dtype = "int64"

\* C9 witness: a column holding exactly the limits 127 and -128 has been
\* returned as int8
C9_Witness ==
    /\ fn = "optimize_numeric" /\ pc = "done"
    /\ df.cols[1].values = << I64(127), I64(-128) >>
    /\ result.cols[1].dtype = "int8"

\* C10: when a call of optimize_special on a frame with rows has ended, a
\* column with missing cells, neither categorical nor coordinate-named, is
\* labelled by the ratio (distinct non-missing values + 1) / rows: UniqueID
\* when its name holds an id segment and the ratio is at least 0.9,
\* TextEntity when it is an object column without id segment and the ratio
\* is above 0.5.
C10_MissingCountsAsOneValue ==
    SpecialEndedNonEmpty =>
        \A c \in Columns :
            (c.nmiss > 0 /\ c.dtype # "category" /\ ~ IsCoordinateName(c.name)) =>
                /\ "<Unique ID>" \in Reported(c.name)
                      <=> (HasIdSegment(c.name) /\ 10 * (c.distinct + 1) >= 9 * df.n_rows)
                /\ "<Text Entity>" \in Reported(c.name)
                      <=> ( /\ c.dtype = "object"
                            /\ ~ HasIdSegment(c.name)
                            /\ 2 * (c.distinct + 1) > df.n_rows )

====
